---- MODULE Spec2Model ----
(***************************************************************************)
(* vrachos.cli: the declarative command hierarchy of src/src/vrachos/cli.py *)
(* A tree of Command classes (NAME, SUBCOMMANDS_CLS, pydantic fields) is     *)
(* compiled by Command._as_click into click commands and groups, click      *)
(* parses argv one context at a time and calls Command._handler for every   *)
(* command of the invoked chain, which rebuilds the argument hierarchy with *)
(* Command._build_hierarchy and calls on_init / on_run.                      *)
(*                                                                         *)
(* vrachos.configuration: Configuration.load and Configuration.save of      *)
(* src/src/vrachos/configuration.py, as main.py uses them, with the files   *)
(* FILEPATH and temp_file; specification SpecConfig.                        *)
(* Two processes saving to one FILEPATH at once (the temp file is one name  *)
(* they share); specification SpecSavers.                                   *)
(*                                                                         *)
(* vrachos.core: open_editor of src/src/vrachos/core/io.py with get_editor  *)
(* of src/src/vrachos/core/_internal.py; specification SpecEditor.          *)
(*                                                                         *)
(* Python values are written as their repr in a string: "None", "True",     *)
(* "0", "1.5", "'s'" (a str), so that the int 1 and the str '1' differ.      *)
(***************************************************************************)
EXTENDS Integers, Sequences, FiniteSets, TLC

VARIABLES
    SUBCOMMANDS_CLS,  \* class -> sequence of child classes (cli.py:29)
    NAME,             \* class -> command name (cli.py:28)
    model_fields,     \* class -> sequence of declared fields, in declaration order
    pc,               \* where the process is: run, parser, handler, exit
    click_obj,        \* what _as_click returned to Command.run (cli.py:145)
    created,          \* the click objects constructed so far, in construction order
    ctxs,             \* the chain of click contexts, root first; parent of ctxs[i] is ctxs[i-1]
    args,             \* the hierarchy the running handler built (cli.py:95)
    on_init_log,      \* calls of on_init so far: <<class, hierarchy>>
    on_run_log,       \* calls of on_run so far: <<class, hierarchy>>
    instances,        \* Command instances constructed so far: <<class, by>>
    error             \* the exception that ended the process, or NoError

VARIABLES
    FILEPATH_suffix,  \* Configuration.FILEPATH.suffix (configuration.py:85)
    config,           \* the field values of the Configuration instance
    fs,               \* the files: parent directory, FILEPATH and temp_file
    cfg_pc,           \* where load / save stands, "idle" between calls
    caller,           \* "load" while save runs on behalf of load (configuration.py:118)
    json_str,         \* save's local json_str (configuration.py:181)
    previous,         \* what FILEPATH held when the running or last save began
    merged_from,      \* load's merged before the update (configuration.py:141)
    loaded_data,      \* load's loaded_data (configuration.py:124)
    last_call,        \* what main did last: none, assign, load, save
    calls,            \* how many calls of load, save and assignments were made
    cfg_error         \* the exception the last call raised, or NoError

VARIABLES
    links,            \* two savers: path name -> inode it names, 0 when the path is absent
    inodes,           \* two savers: the text of every inode made so far
    saver_pc,         \* saver -> where its save stands: open, write, replace, done, failed
    saver_fd,         \* saver -> the inode its open temp_file refers to, and its offset
    saver_json_str,   \* saver -> its json_str (configuration.py:181)
    saver_error       \* saver -> the exception its save raised, or NoError

VARIABLES
    environ,          \* os.environ: EDITOR and VISUAL (_internal.py:11, 16)
    installed,        \* the executables shutil.which finds (_internal.py:13)
    platform,         \* sys.platform (_internal.py:30)
    initial_text,     \* open_editor's argument (io.py:22)
    editor_pc,        \* where open_editor stands
    editor_temp_file, \* the file open_editor made (io.py:25-29)
    editor,           \* open_editor's local editor (io.py:32)
    editor_result,    \* what open_editor returned, or None
    editor_error      \* the exception open_editor raised, or NoError

cli_vars == <<SUBCOMMANDS_CLS, NAME, model_fields, pc, click_obj, created, ctxs,
              args, on_init_log, on_run_log, instances, error>>

config_vars == <<FILEPATH_suffix, config, fs, cfg_pc, caller, json_str, previous,
                 merged_from, loaded_data, last_call, calls, cfg_error>>

saver_vars == <<links, inodes, saver_pc, saver_fd, saver_json_str, saver_error>>

editor_vars == <<environ, installed, platform, initial_text, editor_pc,
                 editor_temp_file, editor, editor_result, editor_error>>

vars == <<cli_vars, config_vars, saver_vars, editor_vars>>

defs == <<SUBCOMMANDS_CLS, NAME, model_fields>>

----------------------------------------------------------------------------
(* Bounds of the model *)

\* number of Command classes in a command tree
NumCmds == 3

Classes == 1..NumCmds

Range(s) == {s[i] : i \in DOMAIN s}

----------------------------------------------------------------------------
(* Python values, pydantic fields *)

PydanticUndefined == "PydanticUndefined"

None == "None"

\* type(v) of a value
PyType(v) ==
    CASE v = "None" -> "NoneType"
      [] v \in {"True", "False"} -> "bool"
      [] v \in {"0", "1"} -> "int"
      [] v \in {"0.0", "1.0", "1.5"} -> "float"
      [] OTHER -> "str"

\* the annotations a field is declared with; "list" stands for every
\* annotation that is not one of bool, int, float, str
Annotations == {"bool", "int", "float", "str", "list"}

SupportedTypes == {"bool", "int", "float", "str"}

\* the defaults a field of each annotation is declared with: none at all,
\* an explicit None, a falsy value, a truthy value
DeclaredDefaults(annotation) ==
    {PydanticUndefined, None} \cup
    CASE annotation = "bool" -> {"False", "True"}
      [] annotation = "int" -> {"0", "1"}
      [] annotation = "float" -> {"0.0", "1.5"}
      [] annotation = "str" -> {"''", "'s'"}
      [] OTHER -> {}

\* FieldInfo: one entry of cls.model_fields
FieldInfo(name, annotation, default, alias, description) ==
    [name |-> name, annotation |-> annotation, default |-> default,
     alias |-> alias, description |-> description]

----------------------------------------------------------------------------
(* _get_pydantic_field_default, cli.py:14-18 *)

_get_pydantic_field_default(field_info) ==
    IF field_info.default = PydanticUndefined THEN None ELSE field_info.default

----------------------------------------------------------------------------
(* click.Option as Command._get_click_parameters constructs it *)

NoError == [type |-> "None"]

\* cli.py:38-43: the description gets a final period unless it is empty,
\* missing or already ends with one
field_description(description) ==
    CASE description = "The x" -> "The x."
      [] description = "d" -> "d."
      [] OTHER -> description

\* cli.py:46-48: the long flag, and the short one when the alias is set and
\* differs from the field name
option_flags(field_info) ==
    IF field_info.alias # None /\ field_info.alias # field_info.name
    THEN << <<"--", field_info.name>>, <<"-", field_info.alias>> >>
    ELSE << <<"--", field_info.name>> >>

\* click infers the option's type from the default when no type is given;
\* an option without default is a STRING, a flag is a BOOL
convert_type(default) ==
    CASE PyType(default) = "bool" -> "BOOL"
      [] PyType(default) = "int" -> "INT"
      [] PyType(default) = "float" -> "FLOAT"
      [] OTHER -> "STRING"

\* cli.py:50-64: option_kwargs of one supported field and the click.Option
\* made of them. default = None is click's "no default".
click_Option(field_info) ==
    LET default == _get_pydantic_field_default(field_info)
        is_flag == field_info.annotation = "bool"
        required == ~(default # None)
        opt_default == IF default # None THEN default ELSE None
    IN  [name |-> field_info.name,
         flags |-> option_flags(field_info),
         is_flag |-> is_flag,
         required |-> required,
         default |-> opt_default,
         type |-> IF is_flag THEN "BOOL" ELSE convert_type(opt_default),
         \* click: flag_value = not default
         flag_value |-> IF opt_default = "True" THEN "False" ELSE "True",
         help |-> field_description(field_info.description)]

\* fields of an unsupported annotation left out instead of refused
_get_click_parameters_skip_unsupported(cls) ==
    LET fields == SelectSeq(model_fields[cls],
                            LAMBDA f : f.annotation \in SupportedTypes)
    IN  [exc |-> NoError,
         params |-> [i \in DOMAIN fields |-> click_Option(fields[i])]]

\* the first field, in declaration order, whose annotation is not supported
\* (0 when there is none): where the loop of cli.py:35-68 raises
first_unsupported(fields) ==
    LET bad == {i \in DOMAIN fields : fields[i].annotation \notin SupportedTypes}
    IN  IF bad = {} THEN 0 ELSE CHOOSE i \in bad : \A j \in bad : i <= j

\* Command._get_click_parameters, cli.py:31-70
_get_click_parameters(cls) ==
    LET fields == model_fields[cls]
        k == first_unsupported(fields)
    IN  IF k # 0
        THEN [exc |-> [type |-> "NotImplementedError", cls |-> cls,
                       field |-> fields[k].name],
              params |-> <<>>]
        ELSE [exc |-> NoError,
              params |-> [i \in DOMAIN fields |-> click_Option(fields[i])]]

----------------------------------------------------------------------------
(* Command._as_click, cli.py:102-134 *)

NoObj == [kind |-> "None"]

\* click.Group.add_command for every compiled child, cli.py:123-124: the
\* group's commands is a dict keyed by the child's name, a later child with
\* the same name replaces the earlier one
add_commands(subcommands) ==
    [nm \in {subcommands[i].name : i \in DOMAIN subcommands} |->
        LET last == CHOOSE i \in DOMAIN subcommands :
                        /\ subcommands[i].name = nm
                        /\ \A j \in DOMAIN subcommands :
                               subcommands[j].name = nm => j <= i
        IN  subcommands[last]]

\* click.Group(...) made without invoke_without_command: click's default
click_Group_default_invoke(cls, params, subcommands) ==
    [kind |-> "Group", name |-> NAME[cls], params |-> params,
     callback |-> cls, obj |-> cls, invoke_without_command |-> FALSE,
     commands |-> add_commands(subcommands)]

\* click.Group(...) of cli.py:115-122 with the children added, cli.py:123-124
click_Group(cls, params, subcommands) ==
    [kind |-> "Group", name |-> NAME[cls], params |-> params,
     callback |-> cls, obj |-> cls, invoke_without_command |-> TRUE,
     commands |-> add_commands(subcommands)]

\* click.Command(...) of cli.py:126-132
click_Command(cls, params) ==
    [kind |-> "Command", name |-> NAME[cls], params |-> params,
     callback |-> cls, obj |-> cls]

RECURSIVE _as_click(_)
RECURSIVE _as_click_subcommands(_, _)

\* the loop of cli.py:106-109 after its first n iterations
_as_click_subcommands(cls, n) ==
    IF n = 0
    THEN [exc |-> NoError, subcommands |-> <<>>, created |-> <<>>]
    ELSE LET prev == _as_click_subcommands(cls, n - 1)
         IN  IF prev.exc # NoError
             THEN prev
             ELSE LET r == _as_click(SUBCOMMANDS_CLS[cls][n])
                  IN  [exc |-> r.exc,
                       subcommands |-> IF r.exc = NoError
                                       THEN Append(prev.subcommands, r.obj)
                                       ELSE prev.subcommands,
                       created |-> prev.created \o r.created]

\* _as_click with the command's own options synthesized before its children
\* are compiled
_as_click_params_first(cls) ==
    LET p == _get_click_parameters(cls)
        subs == _as_click_subcommands(cls, Len(SUBCOMMANDS_CLS[cls]))
    IN  IF p.exc # NoError
        THEN [exc |-> p.exc, obj |-> NoObj, created |-> <<>>]
        ELSE IF subs.exc # NoError
        THEN [exc |-> subs.exc, obj |-> NoObj, created |-> subs.created]
        ELSE IF SUBCOMMANDS_CLS[cls] # <<>>
        THEN [exc |-> NoError,
              obj |-> click_Group(cls, p.params, subs.subcommands),
              created |-> Append(subs.created, cls)]
        ELSE [exc |-> NoError,
              obj |-> click_Command(cls, p.params),
              created |-> Append(subs.created, cls)]

\* exc: the exception raised, obj: the click object returned, created: the
\* classes whose click object was constructed, in construction order
_as_click(cls) ==
    LET subs == _as_click_subcommands(cls, Len(SUBCOMMANDS_CLS[cls]))
        p == _get_click_parameters(cls)
    IN  IF subs.exc # NoError
        THEN [exc |-> subs.exc, obj |-> NoObj, created |-> subs.created]
        ELSE IF p.exc # NoError
        THEN [exc |-> p.exc, obj |-> NoObj, created |-> subs.created]
        ELSE IF SUBCOMMANDS_CLS[cls] # <<>>
        THEN [exc |-> NoError,
              obj |-> click_Group(cls, p.params, subs.subcommands),
              created |-> Append(subs.created, cls)]
        ELSE [exc |-> NoError,
              obj |-> click_Command(cls, p.params),
              created |-> Append(subs.created, cls)]

----------------------------------------------------------------------------
(* click: parsing the arguments of one command into a context *)

Absent == "Absent"

\* what the command line gives for a value option: nothing, a number, a word
Tokens == {"1", "x"}

\* what the command line gives for one option
Supplied(opt) == IF opt.is_flag THEN {Absent, "Present"} ELSE {Absent} \cup Tokens

\* click's conversion of a token to the option's type; "BadParameter" when
\* the token is no value of the type
type_convert(type, tok) ==
    CASE type = "INT" -> IF tok = "1" THEN "1" ELSE "BadParameter"
      [] type = "FLOAT" -> IF tok = "1" THEN "1.0" ELSE "BadParameter"
      [] OTHER -> IF tok = "1" THEN "'1'" ELSE "'x'"

\* the value click gives one option: the flag value or the converted token
\* when supplied, the default otherwise; a required option whose value is
\* missing is a usage error
option_value(opt, tok) ==
    LET value == IF tok = Absent THEN opt.default
                 ELSE IF opt.is_flag THEN opt.flag_value
                 ELSE type_convert(opt.type, tok)
    IN  IF value = "BadParameter" THEN [usage_error |-> "BadParameter", value |-> None]
        ELSE IF opt.required /\ value = None
        THEN [usage_error |-> "MissingParameter", value |-> None]
        ELSE [usage_error |-> None, value |-> value]

\* the command lines of one command: what is supplied for each of its options
CommandLines(command) ==
    {s \in [DOMAIN command.params -> {Absent, "Present"} \cup Tokens] :
        \A i \in DOMAIN command.params : s[i] \in Supplied(command.params[i])}

\* click.Command.parse_args: ctx.params, keyed by the option's name, or the
\* usage errors of which click raises one: those of the options, processed
\* in command line order, else that of a command that is no group and is
\* followed by a further argument
parse_args(command, supplied, rest) ==
    LET vals == [i \in DOMAIN command.params |->
                    option_value(command.params[i], supplied[i])]
        bad == {vals[i].usage_error : i \in DOMAIN vals} \ {None}
    IN  IF bad # {}
        THEN [usage_errors |-> bad, params |-> <<>>]
        ELSE IF command.kind = "Command" /\ rest # None
        THEN [usage_errors |-> {"UnexpectedArgument"}, params |-> <<>>]
        ELSE [usage_errors |-> {},
              params |-> [nm \in {command.params[i].name : i \in DOMAIN command.params} |->
                            LET i == CHOOSE i \in DOMAIN command.params :
                                         command.params[i].name = nm
                            IN  vals[i].value]]

----------------------------------------------------------------------------
(* pydantic: cls(kwargs) *)

\* whether pydantic accepts the value for a field of the annotation
field_accepts(annotation, value) ==
    CASE annotation = "bool" -> value \in {"True", "False", "0", "1", "0.0", "1.0", "'1'"}
      [] annotation = "int" -> value \in {"True", "False", "0", "1", "0.0", "1.0", "'1'"}
      [] annotation = "float" -> value \in {"True", "False", "0", "1", "0.0", "1.0", "1.5", "'1'"}
      [] annotation = "str" -> PyType(value) = "str"
      [] OTHER -> FALSE

\* whether cls(kwargs) validates: every field is given (or has a default)
\* and its value is accepted
validates(cls, kwargs) ==
    \A i \in DOMAIN model_fields[cls] :
        LET f == model_fields[cls][i]
        IN  IF f.name \in DOMAIN kwargs
            THEN field_accepts(f.annotation, kwargs[f.name])
            ELSE f.default # PydanticUndefined

----------------------------------------------------------------------------
(* Command._build_hierarchy, cli.py:72-89 *)

\* an entry of the hierarchy dict: a parsed value, or a nested dict
ValueEntry(v) == [kind |-> "value", v |-> v]
DictEntry(d) == [kind |-> "dict", d |-> d]

\* d[key] = entry
dict_set(d, key, entry) ==
    [k \in DOMAIN d \cup {key} |-> IF k = key THEN entry ELSE d[k]]

\* cli.py:79-80: params[param_key] = current_ctx.params[param_key] for every key
dict_update(d, ctx_params) ==
    [k \in DOMAIN d \cup DOMAIN ctx_params |->
        IF k \in DOMAIN ctx_params THEN ValueEntry(ctx_params[k]) ELSE d[k]]

ValidationError(cls) == [type |-> "ValidationError", cls |-> cls]

RECURSIVE _build_hierarchy(_, _)
RECURSIVE _build_hierarchy_loop(_, _, _)

RECURSIVE _build_hierarchy_loop_keyed_by_cls(_, _, _)

\* the loop of cli.py:77-87 with the nested entry stored under cls.NAME, the
\* NAME of the class the hierarchy is built for, in place of obj.NAME
_build_hierarchy_loop_keyed_by_cls(cls, j, acc) ==
    IF j = 0 \/ acc.exc # NoError THEN acc
    ELSE LET current_ctx == ctxs[j]
         IN  IF cls = current_ctx.obj
             THEN _build_hierarchy_loop_keyed_by_cls(cls, j - 1,
                      [acc EXCEPT !.params = dict_update(@, current_ctx.params)])
             ELSE IF cls \in Range(SUBCOMMANDS_CLS[current_ctx.obj])
             THEN IF ~validates(current_ctx.obj, current_ctx.params)
                  THEN [acc EXCEPT !.exc = ValidationError(current_ctx.obj)]
                  ELSE LET sub == _build_hierarchy(current_ctx.obj, j)
                           inst == (acc.instances \o <<current_ctx.obj>>) \o sub.instances
                       IN  IF sub.exc # NoError
                           THEN [exc |-> sub.exc, params |-> acc.params,
                                 instances |-> inst]
                           ELSE _build_hierarchy_loop_keyed_by_cls(cls, j - 1,
                                    [exc |-> NoError,
                                     params |-> dict_set(acc.params, NAME[cls],
                                                    DictEntry(sub.params)),
                                     instances |-> inst])
             ELSE _build_hierarchy_loop_keyed_by_cls(cls, j - 1, acc)

\* the while loop of cli.py:77-87 with current_ctx = ctxs[j] (exhausted when
\* j = 0) and acc the params and instances so far
_build_hierarchy_loop(cls, j, acc) ==
    IF j = 0 \/ acc.exc # NoError THEN acc
    ELSE LET current_ctx == ctxs[j]
         IN  IF cls = current_ctx.obj
             THEN _build_hierarchy_loop(cls, j - 1,
                      [acc EXCEPT !.params = dict_update(@, current_ctx.params)])
             ELSE IF cls \in Range(SUBCOMMANDS_CLS[current_ctx.obj])
             THEN IF ~validates(current_ctx.obj, current_ctx.params)
                  THEN [acc EXCEPT !.exc = ValidationError(current_ctx.obj)]
                  ELSE LET sub == _build_hierarchy(current_ctx.obj, j)
                           inst == (acc.instances \o <<current_ctx.obj>>) \o sub.instances
                       IN  IF sub.exc # NoError
                           THEN [exc |-> sub.exc, params |-> acc.params,
                                 instances |-> inst]
                           ELSE _build_hierarchy_loop(cls, j - 1,
                                    [exc |-> NoError,
                                     params |-> dict_set(acc.params,
                                                    NAME[current_ctx.obj],
                                                    DictEntry(sub.params)),
                                     instances |-> inst])
             ELSE _build_hierarchy_loop(cls, j - 1, acc)

\* cls._build_hierarchy(ctxs[i]) that also instantiates cls itself and nests
\* its own values under its own NAME
_build_hierarchy_nest_self(cls, i) ==
    LET r == _build_hierarchy_loop(cls, i,
                 [exc |-> NoError, params |-> <<>>, instances |-> <<>>])
    IN  IF r.exc # NoError THEN r
        ELSE [exc |-> NoError,
              params |-> dict_set(r.params, NAME[cls],
                             DictEntry(dict_update(<<>>, ctxs[i].params))),
              instances |-> r.instances \o <<cls>>]

\* cls._build_hierarchy(ctxs[i]): exc, the params dict returned, and the
\* classes instantiated on the way
_build_hierarchy(cls, i) ==
    _build_hierarchy_loop(cls, i, [exc |-> NoError, params |-> <<>>, instances |-> <<>>])

----------------------------------------------------------------------------
(* Configuration, configuration.py:58-202: values, JSON text and files *)

\* the calls of load, save and assignments one run of the model makes
MaxCalls == 3

\* the fields of the Configuration subclass the model runs on: debug and
\* timeout of main.py:17-18 and limits, a field holding a nested mapping;
\* a mapping is written in this order of keys
KeyOrder == <<"debug", "timeout", "limits", "x", "y">>

\* AppConfig(), main.py:36: every field at its declared default
ConfigDefaults ==
    [debug |-> ValueEntry("False"),
     timeout |-> ValueEntry("30"),
     limits |-> DictEntry([x |-> ValueEntry("1"), y |-> ValueEntry("2")])]

\* whether pydantic accepts the entry for the field (model_validate,
\* configuration.py:146, and validate_assignment, configuration.py:90)
config_accepts(key, entry) ==
    CASE key = "debug" -> entry.kind = "value" /\ entry.v \in {"True", "False"}
      [] key = "timeout" -> entry.kind = "value" /\ entry.v \in {"30", "5"}
      [] key = "limits" -> entry.kind = "dict"
      [] OTHER -> FALSE

\* cls.model_validate(merged), configuration.py:146
model_validate(merged) ==
    LET ok == \A k \in DOMAIN ConfigDefaults :
                  k \in DOMAIN merged /\ config_accepts(k, merged[k])
    IN  [exc |-> IF ok THEN NoError ELSE [type |-> "ValidationError"],
         obj |-> IF ok THEN [k \in DOMAIN ConfigDefaults |-> merged[k]]
                 ELSE ConfigDefaults]

\* merged.update(loaded), configuration.py:142: dict.update, key by key at
\* the top level
update(merged, loaded) ==
    [k \in DOMAIN merged \cup DOMAIN loaded |->
        IF k \in DOMAIN loaded THEN loaded[k] ELSE merged[k]]

\* the JSON literal of a Python scalar and back
json_scalar(v) ==
    CASE v = "True" -> "true"
      [] v = "False" -> "false"
      [] v = "None" -> "null"
      [] v = "'x'" -> "\"x\""
      [] OTHER -> v

python_scalar(j) ==
    CASE j = "true" -> "True"
      [] j = "false" -> "False"
      [] j = "null" -> "None"
      [] j = "\"x\"" -> "'x'"
      [] OTHER -> j

RECURSIVE serializable(_)

\* whether json.dumps with _ConfigurationEncoder can encode the mapping:
\* a complex number reaches JSONEncoder.default, configuration.py:55
serializable(d) ==
    \A k \in DOMAIN d :
        IF d[k].kind = "dict" THEN serializable(d[k].d) ELSE d[k].v # "1j"

\* the keys of a mapping, in the order they are written
keys_of(d) == SelectSeq(KeyOrder, LAMBDA k : k \in DOMAIN d)

RECURSIVE json_dumps(_)

\* json.dumps(data, indent=4), configuration.py:182-187: the text as the
\* sequence of its lines, a nested mapping being the text of its value
json_dumps(d) ==
    LET ks == keys_of(d)
    IN  (<<[t |-> "{"]>> \o
         [i \in DOMAIN ks |->
             [t |-> "pair", key |-> ks[i],
              value |-> IF d[ks[i]].kind = "dict"
                        THEN [kind |-> "object", text |-> json_dumps(d[ks[i]].d)]
                        ELSE [kind |-> "scalar", json |-> json_scalar(d[ks[i]].v)]]])
        \o <<[t |-> "}"]>>

\* the "\n" appended at configuration.py:188
newline == [t |-> "newline"]

\* the text without the newlines at its end
RECURSIVE rstrip(_)
rstrip(text) ==
    IF text # << >> /\ text[Len(text)] = newline
    THEN rstrip(SubSeq(text, 1, Len(text) - 1))
    ELSE text

RECURSIVE is_object(_)

\* whether the text is a complete JSON object
is_object(text) ==
    /\ Len(text) >= 2
    /\ text[1].t = "{"
    /\ text[Len(text)].t = "}"
    /\ \A i \in 2..(Len(text) - 1) :
           /\ text[i].t = "pair"
           /\ text[i].value.kind = "object" => is_object(text[i].value.text)

RECURSIVE parse_object(_)

\* the dict of a complete JSON object; of a repeated key the last counts
parse_object(text) ==
    [k \in {text[i].key : i \in 2..(Len(text) - 1)} |->
        LET last == CHOOSE i \in 2..(Len(text) - 1) :
                        /\ text[i].key = k
                        /\ \A j \in 2..(Len(text) - 1) : text[j].key = k => j <= i
        IN  IF text[last].value.kind = "object"
            THEN DictEntry(parse_object(text[last].value.text))
            ELSE ValueEntry(python_scalar(text[last].value.json))]

\* json.loads(raw_data), configuration.py:124: exc, whether the value is a
\* dict, and the dict
json_loads(raw_data) ==
    LET text == rstrip(raw_data)
    IN  IF is_object(text)
        THEN [exc |-> NoError, is_dict |-> TRUE, value |-> parse_object(text)]
        ELSE IF Len(text) = 1 /\ text[1].t = "scalar"
        THEN [exc |-> NoError, is_dict |-> FALSE, value |-> <<>>]
        ELSE [exc |-> [type |-> "JSONDecodeError"], is_dict |-> FALSE, value |-> <<>>]

\* a path that does not exist, and a file holding a text
Missing == [exists |-> FALSE]
File(text) == [exists |-> TRUE, text |-> text]

\* str.lower() of the suffixes the model runs on, configuration.py:167
lower(suffix) == IF suffix = ".JSON" THEN ".json" ELSE suffix

\* FILEPATH.with_suffix(FILEPATH.suffix + ".tmp") names the file FILEPATH
\* with the suffix kept
temp_file_in_place == "FILEPATH"

\* temp_file, configuration.py:192-194: the name of FILEPATH with ".tmp"
\* appended, another file of the same directory
temp_file == "temp_file"

----------------------------------------------------------------------------
(* Configuration.save and Configuration.load, one step per statement *)

\* what the file at FILEPATH may hold before the program runs: nothing, a
\* document written by hand or by an earlier run (with keys left out, at the
\* top level or inside limits, or a value of another type), a text that is
\* not complete JSON, or JSON that is not an object
InitialDicts ==
    {ConfigDefaults,
     [debug |-> ValueEntry("True")],
     [timeout |-> ValueEntry("5")],
     [timeout |-> ValueEntry("'x'")],
     [limits |-> DictEntry([x |-> ValueEntry("5")])],
     [debug |-> ValueEntry("True"),
      limits |-> DictEntry([x |-> ValueEntry("5"), y |-> ValueEntry("2")])],
     [limits |-> ValueEntry("5")]}

InitialFiles ==
    {Missing, File(<<[t |-> "scalar", json |-> "5"]>>),
     File(SubSeq(json_dumps(ConfigDefaults), 1, 2))}
        \cup {File(json_dumps(d) \o <<newline>>) : d \in InitialDicts}

\* the values main assigns to fields, config.debug = True at main.py:38
Assignments ==
    {[key |-> "debug", entry |-> ValueEntry("True")],
     [key |-> "timeout", entry |-> ValueEntry("5")],
     [key |-> "limits",
      entry |-> DictEntry([x |-> ValueEntry("5"), y |-> ValueEntry("2")])],
     [key |-> "limits",
      entry |-> DictEntry([x |-> ValueEntry("1"), y |-> ValueEntry("1j")])]}

\* the state of the configuration before main.py:36-37
ConfigInit ==
    /\ FILEPATH_suffix \in {".json", ".JSON", ".yaml"}
    /\ config = ConfigDefaults
    /\ \E dir \in BOOLEAN, f \in InitialFiles, stale \in BOOLEAN :
           /\ dir \/ (f = Missing /\ ~stale)
           /\ fs = [dir |-> dir, FILEPATH |-> f,
                    temp_file |-> IF stale THEN File(<<[t |-> "{"]>>) ELSE Missing]
    /\ cfg_pc = "idle"
    /\ caller = "main"
    /\ json_str = << >>
    /\ previous = Missing
    /\ merged_from = << >>
    /\ loaded_data = << >>
    /\ last_call = "none"
    /\ calls = 0
    /\ cfg_error = NoError

\* the exception leaves save (configuration.py:200-202) and, when load had
\* called save, load (configuration.py:159-161)
Raise(type) ==
    /\ cfg_error' = [type |-> type]
    /\ cfg_pc' = "idle"
    /\ last_call' = IF caller = "load" THEN "load" ELSE "save"

\* main.py:38: config.debug = True, validated by validate_assignment
Assign ==
    /\ cfg_pc = "idle"
    /\ calls < MaxCalls
    /\ \E a \in Assignments :
           /\ config_accepts(a.key, a.entry)
           /\ config' = [config EXCEPT ![a.key] = a.entry]
    /\ calls' = calls + 1
    /\ last_call' = "assign"
    /\ UNCHANGED <<cli_vars, saver_vars, editor_vars, FILEPATH_suffix, fs, cfg_pc, caller, json_str, previous,
                   merged_from, loaded_data, cfg_error>>

\* main.py:39: config.save()
CallSave ==
    /\ cfg_pc = "idle"
    /\ calls < MaxCalls
    /\ calls' = calls + 1
    /\ cfg_pc' = "save_suffix"
    /\ caller' = "main"
    /\ previous' = fs.FILEPATH
    /\ json_str' = << >>
    /\ cfg_error' = NoError
    /\ last_call' = "none"
    /\ UNCHANGED <<cli_vars, saver_vars, editor_vars, FILEPATH_suffix, config, fs, merged_from, loaded_data>>

\* configuration.py:167-171
SaveSuffix ==
    /\ cfg_pc = "save_suffix"
    /\ IF lower(FILEPATH_suffix) # ".json"
       THEN Raise("ValueError")
       ELSE cfg_pc' = "save_mkdir" /\ UNCHANGED <<cfg_error, last_call>>
    /\ UNCHANGED <<cli_vars, saver_vars, editor_vars, FILEPATH_suffix, config, fs, caller, json_str, previous,
                   merged_from, loaded_data, calls>>

\* configuration.py:174: FILEPATH.parent.mkdir(parents=True, exist_ok=True);
\* making a missing directory may fail
SaveMkdir ==
    /\ cfg_pc = "save_mkdir"
    /\ \/ /\ fs' = [fs EXCEPT !.dir = TRUE]
          /\ cfg_pc' = "save_dumps"
          /\ UNCHANGED <<cfg_error, last_call>>
       \/ /\ ~fs.dir
          /\ Raise("OSError")
          /\ fs' = fs
    /\ UNCHANGED <<cli_vars, saver_vars, editor_vars, FILEPATH_suffix, config, caller, json_str, previous,
                   merged_from, loaded_data, calls>>

\* configuration.py:177-189: model_dump, json.dumps and the newline
SaveDumps ==
    /\ cfg_pc = "save_dumps"
    /\ IF serializable(config)
       THEN /\ json_str' = json_dumps(config) \o <<newline>>
            /\ cfg_pc' = "save_open"
            /\ UNCHANGED <<cfg_error, last_call>>
       ELSE /\ Raise("TypeError")
            /\ json_str' = json_str
    /\ UNCHANGED <<cli_vars, saver_vars, editor_vars, FILEPATH_suffix, config, fs, caller, previous,
                   merged_from, loaded_data, calls>>

\* configuration.py:195, write_text opening the file for writing: the file
\* is created or emptied, or the open fails
SaveOpen ==
    /\ cfg_pc = "save_open"
    /\ \/ /\ fs' = [fs EXCEPT ![temp_file] = File(<< >>)]
          /\ cfg_pc' = "save_write"
          /\ UNCHANGED <<cfg_error, last_call>>
       \/ /\ Raise("OSError")
          /\ fs' = fs
    /\ UNCHANGED <<cli_vars, saver_vars, editor_vars, FILEPATH_suffix, config, caller, json_str, previous,
                   merged_from, loaded_data, calls>>

\* configuration.py:195, write_text writing and closing: the text reaches
\* the file piece by piece, and a write may fail with the file left short
SaveWrite ==
    /\ cfg_pc = "save_write"
    /\ LET n == Len(fs[temp_file].text)
       IN  IF n < Len(json_str)
           THEN \/ /\ fs' = [fs EXCEPT ![temp_file] = File(Append(@.text, json_str[n + 1]))]
                   /\ UNCHANGED <<cfg_pc, cfg_error, last_call>>
                \/ /\ Raise("OSError")
                   /\ fs' = fs
           ELSE /\ cfg_pc' = "save_replace"
                /\ UNCHANGED <<fs, cfg_error, last_call>>
    /\ UNCHANGED <<cli_vars, saver_vars, editor_vars, FILEPATH_suffix, config, caller, json_str, previous,
                   merged_from, loaded_data, calls>>

\* configuration.py:196: temp_file.replace(FILEPATH), one rename, which may
\* fail; save returns, and so does load when it had called save
\* (configuration.py:118-119)
SaveReplace ==
    /\ cfg_pc = "save_replace"
    /\ \/ /\ fs' = IF temp_file = "FILEPATH" THEN fs
                   ELSE [fs EXCEPT !.FILEPATH = fs[temp_file], ![temp_file] = Missing]
          /\ cfg_pc' = "idle"
          /\ last_call' = IF caller = "load" THEN "load" ELSE "save"
          /\ cfg_error' = cfg_error
       \/ /\ Raise("OSError")
          /\ fs' = fs
    /\ UNCHANGED <<cli_vars, saver_vars, editor_vars, FILEPATH_suffix, config, caller, json_str, previous,
                   merged_from, loaded_data, calls>>

\* main.py:37: config.load()
CallLoad ==
    /\ cfg_pc = "idle"
    /\ calls < MaxCalls
    /\ calls' = calls + 1
    /\ cfg_pc' = "load_exists"
    /\ caller' = "main"
    /\ merged_from' = << >>
    /\ loaded_data' = << >>
    /\ cfg_error' = NoError
    /\ last_call' = "none"
    /\ UNCHANGED <<cli_vars, saver_vars, editor_vars, FILEPATH_suffix, config, fs, json_str, previous>>

\* configuration.py:113-119: without a file load saves the current values
LoadExists ==
    /\ cfg_pc = "load_exists"
    /\ IF ~fs.FILEPATH.exists
       THEN /\ cfg_pc' = "save_suffix"
            /\ caller' = "load"
            /\ previous' = fs.FILEPATH
            /\ json_str' = << >>
       ELSE /\ cfg_pc' = "load_read"
            /\ UNCHANGED <<caller, previous, json_str>>
    /\ UNCHANGED <<cli_vars, saver_vars, editor_vars, FILEPATH_suffix, config, fs, merged_from, loaded_data,
                   last_call, calls, cfg_error>>

\* configuration.py:122-138: read_text, json.loads and the test for a dict
LoadRead ==
    /\ cfg_pc = "load_read"
    /\ LET r == json_loads(fs.FILEPATH.text)
       IN  IF r.exc # NoError \/ ~r.is_dict
           THEN /\ cfg_error' = [type |-> "ValueError"]
                /\ cfg_pc' = "idle"
                /\ last_call' = "load"
                /\ loaded_data' = loaded_data
           ELSE /\ loaded_data' = r.value
                /\ cfg_pc' = "load_merge"
                /\ UNCHANGED <<cfg_error, last_call>>
    /\ UNCHANGED <<cli_vars, saver_vars, editor_vars, FILEPATH_suffix, config, fs, caller, json_str, previous,
                   merged_from, calls>>

\* configuration.py:140-157: merge, validate and set every field
LoadMerge ==
    /\ cfg_pc = "load_merge"
    /\ merged_from' = config
    /\ LET validated_obj == model_validate(update(config, loaded_data))
       IN  IF validated_obj.exc # NoError
           THEN /\ cfg_error' = [type |-> "ValueError"]
                /\ config' = config
           ELSE /\ config' = validated_obj.obj
                /\ cfg_error' = cfg_error
    /\ cfg_pc' = "idle"
    /\ last_call' = "load"
    /\ UNCHANGED <<cli_vars, saver_vars, editor_vars, FILEPATH_suffix, fs, caller, json_str, previous,
                   loaded_data, calls>>

ConfigNext ==
    \/ Assign
    \/ CallSave
    \/ SaveSuffix
    \/ SaveMkdir
    \/ SaveDumps
    \/ SaveOpen
    \/ SaveWrite
    \/ SaveReplace
    \/ CallLoad
    \/ LoadExists
    \/ LoadRead
    \/ LoadMerge

----------------------------------------------------------------------------
(* Two processes in Configuration.save on one FILEPATH, configuration.py:191-196 *)

\* the two processes, each holding its own Configuration instance
Savers == {1, 2}

\* the values the instance of a saver may hold
SaverConfigs ==
    {ConfigDefaults,
     [ConfigDefaults EXCEPT !.debug = ValueEntry("True"), !.timeout = ValueEntry("5")]}

\* the document an earlier save left at FILEPATH
EarlierDocument == json_dumps(ConfigDefaults) \o <<newline>>

\* a position of a file no write has filled
nul == [t |-> "nul"]

\* write(2) of one piece at the offset pos - 1 of the file holding text: the
\* piece replaces what is there, and a gap left by a truncation is filled
write_at(text, pos, piece) ==
    IF pos <= Len(text)
    THEN [text EXCEPT ![pos] = piece]
    ELSE (text \o [i \in 1..(pos - 1 - Len(text)) |-> nul]) \o <<piece>>

\* both processes have computed json_str and stand before
\* temp_file.write_text, configuration.py:195; FILEPATH is absent or holds
\* an earlier document, temp_file is absent
SaversInit ==
    /\ \E there \in BOOLEAN :
           /\ links = [FILEPATH |-> IF there THEN 1 ELSE 0, temp_file |-> 0]
           /\ inodes = IF there THEN <<EarlierDocument>> ELSE << >>
    /\ saver_pc = [p \in Savers |-> "open"]
    /\ saver_fd = [p \in Savers |-> [inode |-> 0, offset |-> 0]]
    /\ \E c \in [Savers -> SaverConfigs] :
           saver_json_str = [p \in Savers |-> json_dumps(c[p]) \o <<newline>>]
    /\ saver_error = [p \in Savers |-> NoError]

\* configuration.py:195, write_text opening temp_file for writing: the file
\* is created, or the file the name refers to is emptied
SaverOpen(p) ==
    /\ saver_pc[p] = "open"
    /\ IF links[temp_file] = 0
       THEN /\ inodes' = Append(inodes, << >>)
            /\ links' = [links EXCEPT ![temp_file] = Len(inodes) + 1]
            /\ saver_fd' = [saver_fd EXCEPT ![p] = [inode |-> Len(inodes) + 1, offset |-> 0]]
       ELSE /\ inodes' = [inodes EXCEPT ![links[temp_file]] = << >>]
            /\ links' = links
            /\ saver_fd' = [saver_fd EXCEPT ![p] = [inode |-> links[temp_file], offset |-> 0]]
    /\ saver_pc' = [saver_pc EXCEPT ![p] = "write"]
    /\ UNCHANGED <<cli_vars, config_vars, editor_vars, saver_json_str, saver_error>>

\* configuration.py:195, write_text writing and closing: the pieces go to
\* the open file at the process's own offset, whatever the name refers to by
\* then
SaverWrite(p) ==
    /\ saver_pc[p] = "write"
    /\ LET n == saver_fd[p].offset
       IN  IF n < Len(saver_json_str[p])
           THEN /\ inodes' = [inodes EXCEPT ![saver_fd[p].inode] =
                                 write_at(@, n + 1, saver_json_str[p][n + 1])]
                /\ saver_fd' = [saver_fd EXCEPT ![p].offset = n + 1]
                /\ saver_pc' = saver_pc
           ELSE /\ saver_pc' = [saver_pc EXCEPT ![p] = "replace"]
                /\ UNCHANGED <<inodes, saver_fd>>
    /\ UNCHANGED <<cli_vars, config_vars, editor_vars, links, saver_json_str, saver_error>>

\* configuration.py:196: temp_file.replace(FILEPATH), the rename of the file
\* the name temp_file refers to now; FileNotFoundError when there is none
SaverReplace(p) ==
    /\ saver_pc[p] = "replace"
    /\ IF links[temp_file] = 0
       THEN /\ saver_error' = [saver_error EXCEPT ![p] = [type |-> "FileNotFoundError"]]
            /\ saver_pc' = [saver_pc EXCEPT ![p] = "failed"]
            /\ links' = links
       ELSE /\ links' = [FILEPATH |-> links[temp_file], temp_file |-> 0]
            /\ saver_pc' = [saver_pc EXCEPT ![p] = "done"]
            /\ saver_error' = saver_error
    /\ UNCHANGED <<cli_vars, config_vars, editor_vars, inodes, saver_fd, saver_json_str>>

SaversNext ==
    \/ \E p \in Savers : SaverOpen(p)
    \/ \E p \in Savers : SaverWrite(p)
    \/ \E p \in Savers : SaverReplace(p)

\* no process is saving
SaversIdle ==
    /\ links = [FILEPATH |-> 0, temp_file |-> 0]
    /\ inodes = << >>
    /\ saver_pc = [p \in Savers |-> "done"]
    /\ saver_fd = [p \in Savers |-> [inode |-> 0, offset |-> 0]]
    /\ saver_json_str = [p \in Savers |-> << >>]
    /\ saver_error = [p \in Savers |-> NoError]

\* open_editor is not called
EditorIdle ==
    /\ environ = [EDITOR |-> None, VISUAL |-> None]
    /\ installed = {}
    /\ platform = "linux"
    /\ initial_text = ""
    /\ editor_pc = "idle"
    /\ editor_temp_file = Missing
    /\ editor = None
    /\ editor_result = None
    /\ editor_error = NoError

----------------------------------------------------------------------------
(* get_editor, core/_internal.py:8-38, and open_editor, core/io.py:22-57 *)

\* the executables the model knows, and the values EDITOR and VISUAL take:
\* unset, empty, blank, a command, a command with an argument, a command
\* that is not installed
Executables == {"nano", "vi", "code", "notepad.exe"}
EnvValues == {None, "", " ", "nano", "code -w", "gone"}

\* str.split() of the values: the words
split(s) ==
    CASE s = "code -w" -> <<"code", "-w">>
      [] s \in {"", " "} -> << >>
      [] OTHER -> <<s>>

\* shutil.which(cmd) finds the executable
which(cmd) == cmd \in installed

\* editors_by_os.get(sys.platform, []) with common_editors appended,
\* _internal.py:22-31
editors_of(sys_platform) ==
    (CASE sys_platform = "linux" -> <<"nano", "vim", "vi", "gedit", "kate">>
       [] sys_platform = "win32" -> <<"notepad.exe", "notepad++">>
       [] sys_platform = "darwin" -> <<"nano", "vim", "vi">>
       [] OTHER -> << >>)
        \o <<"nano", "vim", "vi">>

\* get_editor looking at one environment variable, _internal.py:11-14 and
\* 16-19: found, the editor to return; exc, the IndexError of split()[0] on
\* a blank value
from_environ(name) ==
    LET value == environ[name]
    IN  IF value = None \/ value = ""
        THEN [exc |-> NoError, found |-> FALSE, editor |-> None]
        ELSE IF split(value) = << >>
        THEN [exc |-> [type |-> "IndexError"], found |-> FALSE, editor |-> None]
        ELSE [exc |-> NoError, found |-> which(split(value)[1]), editor |-> value]

\* get_editor, _internal.py:8-38: exc, and the editor returned (None when no
\* editor is available)
get_editor ==
    LET e == from_environ("EDITOR")
        v == from_environ("VISUAL")
        editors == editors_of(platform)
        available == {i \in DOMAIN editors : which(editors[i])}
    IN  IF e.exc # NoError THEN [exc |-> e.exc, editor |-> None]
        ELSE IF e.found THEN [exc |-> NoError, editor |-> e.editor]
        ELSE IF v.exc # NoError THEN [exc |-> v.exc, editor |-> None]
        ELSE IF v.found THEN [exc |-> NoError, editor |-> v.editor]
        ELSE IF available # {}
        THEN [exc |-> NoError,
              editor |-> editors[CHOOSE i \in available : \A j \in available : i <= j]]
        ELSE [exc |-> NoError, editor |-> None]

\* the environment open_editor is called in, and its argument
EditorInit ==
    /\ environ \in [EDITOR : EnvValues, VISUAL : {None, "code -w", "gone"}]
    /\ installed \in SUBSET Executables
    /\ platform \in {"linux", "win32"}
    /\ initial_text \in {"", "t"}
    /\ editor_pc = "create"
    /\ editor_temp_file = Missing
    /\ editor = None
    /\ editor_result = None
    /\ editor_error = NoError

\* io.py:25-29: the temporary file is made, delete=False, and holds
\* initial_text
EditorCreate ==
    /\ editor_pc = "create"
    /\ editor_temp_file' = File(initial_text)
    /\ editor_pc' = "get_editor"
    /\ UNCHANGED <<cli_vars, config_vars, saver_vars, environ, installed, platform,
                   initial_text, editor, editor_result, editor_error>>

\* io.py:32-34: editor = get_editor(), ValueError when there is none; the
\* exception leaves open_editor, no try statement being entered yet
EditorGetEditor ==
    /\ editor_pc = "get_editor"
    /\ LET r == get_editor
       IN  IF r.exc # NoError
           THEN /\ editor_error' = r.exc
                /\ editor_pc' = "exit"
                /\ editor' = editor
           ELSE IF r.editor = None
           THEN /\ editor_error' = [type |-> "ValueError"]
                /\ editor_pc' = "exit"
                /\ editor' = None
           ELSE /\ editor' = r.editor
                /\ editor_pc' = "run"
                /\ editor_error' = editor_error
    /\ UNCHANGED <<cli_vars, config_vars, saver_vars, environ, installed, platform,
                   initial_text, editor_temp_file, editor_result>>

\* what the editor may leave of the file it was given: the file as it was,
\* the file with another text, or no file
Edited == {editor_temp_file, File("e"), Missing}

\* io.py:38-40 with the handlers of io.py:48-52: the editor cannot be
\* launched (FileNotFoundError), exits with a status that is not 0
\* (CalledProcessError), or exits with 0 having edited the file
EditorRun ==
    /\ editor_pc = "run"
    /\ \/ /\ editor_error' = [type |-> "RuntimeError", from |-> "FileNotFoundError"]
          /\ editor_pc' = "finally"
          /\ editor_temp_file' = editor_temp_file
       \/ /\ editor_error' = [type |-> "RuntimeError", from |-> "CalledProcessError"]
          /\ editor_pc' = "finally"
          /\ editor_temp_file' \in Edited
       \/ /\ editor_error' = editor_error
          /\ editor_pc' = "read"
          /\ editor_temp_file' \in Edited
    /\ UNCHANGED <<cli_vars, config_vars, saver_vars, environ, installed, platform,
                   initial_text, editor, editor_result>>

\* io.py:43-46 with the handler of io.py:51-52: the text is read; opening a
\* file the editor removed raises FileNotFoundError
EditorRead ==
    /\ editor_pc = "read"
    /\ IF editor_temp_file.exists
       THEN /\ editor_result' = editor_temp_file.text
            /\ editor_error' = editor_error
       ELSE /\ editor_error' = [type |-> "RuntimeError", from |-> "FileNotFoundError"]
            /\ editor_result' = editor_result
    /\ editor_pc' = "finally"
    /\ UNCHANGED <<cli_vars, config_vars, saver_vars, environ, installed, platform,
                   initial_text, editor_temp_file, editor>>

\* io.py:54-57: the file is removed if it exists, and open_editor returns
\* or raises
EditorFinally ==
    /\ editor_pc = "finally"
    /\ editor_temp_file' = Missing
    /\ editor_pc' = "exit"
    /\ UNCHANGED <<cli_vars, config_vars, saver_vars, environ, installed, platform,
                   initial_text, editor, editor_result, editor_error>>

EditorNext ==
    \/ EditorCreate
    \/ EditorGetEditor
    \/ EditorRun
    \/ EditorRead
    \/ EditorFinally

----------------------------------------------------------------------------

(* The specifications of the parts, each with the other parts at rest *)

\* the command line engine at rest
CliIdle ==
    /\ SUBCOMMANDS_CLS = << << >> >>
    /\ NAME = <<"a">>
    /\ model_fields = << << >> >>
    /\ pc = "exit"
    /\ click_obj = NoObj
    /\ created = << >>
    /\ ctxs = << >>
    /\ args = << >>
    /\ on_init_log = << >>
    /\ on_run_log = << >>
    /\ instances = << >>
    /\ error = NoError

InitConfig == CliIdle /\ ConfigInit /\ SaversIdle /\ EditorIdle

SpecConfig == InitConfig /\ [][ConfigNext]_vars

\* the configuration at rest
ConfigIdle ==
    /\ FILEPATH_suffix = ".json"
    /\ config = ConfigDefaults
    /\ fs = [dir |-> FALSE, FILEPATH |-> Missing, temp_file |-> Missing]
    /\ cfg_pc = "idle"
    /\ caller = "main"
    /\ json_str = << >>
    /\ previous = Missing
    /\ merged_from = << >>
    /\ loaded_data = << >>
    /\ last_call = "none"
    /\ calls = 0
    /\ cfg_error = NoError

InitSavers == CliIdle /\ ConfigIdle /\ SaversInit /\ EditorIdle

SpecSavers == InitSavers /\ [][SaversNext]_vars

InitEditor == CliIdle /\ ConfigIdle /\ SaversIdle /\ EditorInit

SpecEditor == InitEditor /\ [][EditorNext]_vars

----------------------------------------------------------------------------
(* The command trees the model is run on *)

\* the fields commands declare: a required int, a str with a default whose
\* name is also a command name, a field of an unsupported type
FieldX == FieldInfo("x", "int", PydanticUndefined, None, "The x")
FieldA == FieldInfo("a", "str", "'s'", "v", "The a.")
FieldL == FieldInfo("l", "list", PydanticUndefined, None, None)

FieldLists == {<< >>, <<FieldX>>, <<FieldA>>, <<FieldX, FieldA>>, <<FieldL>>}

\* one field of every annotation, default, alias and description
RichFields ==
    {FieldInfo("x", t, d, al, de) :
        t \in Annotations, d \in UNION {DeclaredDefaults(u) : u \in Annotations},
        al \in {None, "x", "v"}, de \in {None, "d", "d."}}

Names == {"a", "b"}

ChainNames == <<"a", "b", "c", "d", "e", "f">>

\* the elements of a set of classes in increasing order
SortedSeq(S) ==
    CHOOSE s \in [1..Cardinality(S) -> S] :
        \A i, j \in DOMAIN s : i < j => s[i] < s[j]

\* every tree on Classes with root 1: the parent of each other class
Parents == {p \in [Classes \ {1} -> Classes] : \A c \in DOMAIN p : p[c] < c}

ChildrenOf(p) == [c \in Classes |-> SortedSeq({d \in DOMAIN p : p[d] = c})]

\* every tree shape and every naming, all commands declaring the same fields
ShapeTrees ==
    {[subs |-> ChildrenOf(p), name |-> nm, fields |-> [c \in Classes |-> fl]] :
        p \in Parents, nm \in [Classes -> Names], fl \in FieldLists}

\* the chain 1 -> 2 -> ... with distinct names, every command its own fields
FieldTrees ==
    {[subs |-> ChildrenOf([c \in Classes \ {1} |-> c - 1]),
      name |-> [c \in Classes |-> ChainNames[c]],
      fields |-> fl] : fl \in [Classes -> FieldLists]}

\* a single command with one field
OptionTrees ==
    {[subs |-> [c \in {1} |-> << >>], name |-> [c \in {1} |-> "a"],
      fields |-> [c \in {1} |-> <<f>>]] :
        f \in {g \in RichFields : g.default \in DeclaredDefaults(g.annotation)}}

Trees == ShapeTrees \cup FieldTrees \cup OptionTrees

Init ==
    /\ \E t \in Trees :
        /\ SUBCOMMANDS_CLS = t.subs
        /\ NAME = t.name
        /\ model_fields = t.fields
    /\ pc = "run"
    /\ click_obj = NoObj
    /\ created = << >>
    /\ ctxs = << >>
    /\ args = << >>
    /\ on_init_log = << >>
    /\ on_run_log = << >>
    /\ instances = << >>
    /\ error = NoError
    /\ ConfigIdle
    /\ SaversIdle
    /\ EditorIdle

----------------------------------------------------------------------------
(* Command.run, cli.py:142-146, and click's parser *)

UsageError(cls, reason) == [type |-> "UsageError", cls |-> cls, reason |-> reason]

\* click_obj = cls._as_click() for the root class; an exception ends the
\* process before click_obj() is called
Run ==
    /\ pc = "run"
    /\ LET r == _as_click(1)
       IN  /\ created' = r.created
           /\ click_obj' = r.obj
           /\ error' = r.exc
           /\ pc' = IF r.exc = NoError THEN "make_context" ELSE "exit"
    /\ UNCHANGED <<config_vars, saver_vars, editor_vars, defs, ctxs, args, on_init_log, on_run_log, instances>>

\* the words that may follow a command's options on the command line
RestTokens == {None, "zz"} \cup Range(NAME)

\* the command whose context is made next: the root, or the subcommand the
\* last context resolved
next_command ==
    IF ctxs = << >> THEN click_obj
    ELSE ctxs[Len(ctxs)].command.commands[ctxs[Len(ctxs)].invoked_subcommand]

\* click: command.make_context(...): parse this command's own options; the
\* new context's parent is the context before it, its obj is the class given
\* in context_settings (cli.py:121, 131)
MakeContext ==
    /\ pc = "make_context"
    /\ \E supplied \in CommandLines(next_command), rest \in RestTokens :
        LET r == parse_args(next_command, supplied, rest)
        IN  IF r.usage_errors # {}
            THEN /\ \E reason \in r.usage_errors :
                        error' = UsageError(next_command.obj, reason)
                 /\ pc' = "exit"
                 /\ ctxs' = ctxs
            ELSE /\ ctxs' = Append(ctxs, [command |-> next_command,
                                          obj |-> next_command.obj,
                                          params |-> r.params,
                                          protected_args |-> rest,
                                          invoked_subcommand |-> None])
                 /\ pc' = "invoke"
                 /\ error' = error
    /\ UNCHANGED <<config_vars, saver_vars, editor_vars, defs, click_obj, created, args, on_init_log, on_run_log, instances>>

\* click: Group.invoke resolves the subcommand name before it calls the
\* group's callback; an unknown name is a usage error. Without a name the
\* callback is called with invoked_subcommand None if the group was made
\* with invoke_without_command (cli.py:120), and the invocation fails if not
Invoke ==
    /\ pc = "invoke"
    /\ LET ctx == ctxs[Len(ctxs)]
       IN  IF ctx.command.kind = "Group" /\ ctx.protected_args # None
           THEN IF ctx.protected_args \in DOMAIN ctx.command.commands
                THEN /\ ctxs' = [ctxs EXCEPT ![Len(ctxs)].invoked_subcommand =
                                                ctx.protected_args]
                     /\ pc' = "handler"
                     /\ error' = error
                ELSE /\ error' = UsageError(ctx.obj, "NoSuchCommand")
                     /\ pc' = "exit"
                     /\ ctxs' = ctxs
           ELSE IF ctx.command.kind = "Group" /\ ~ctx.command.invoke_without_command
           THEN /\ error' = UsageError(ctx.obj, "MissingCommand")
                /\ pc' = "exit"
                /\ ctxs' = ctxs
           ELSE /\ pc' = "handler"
                /\ UNCHANGED <<ctxs, error>>
    /\ UNCHANGED <<config_vars, saver_vars, editor_vars, defs, click_obj, created, args, on_init_log, on_run_log, instances>>

----------------------------------------------------------------------------
(* Command._handler, cli.py:91-100, one step per statement *)

\* the class whose _handler is running: the callback of the current context
handler_cls == ctxs[Len(ctxs)].command.callback

\* cli.py:94-95 with a _build_hierarchy that takes the dispatching command's
\* values out of the context (params.pop) as it copies them
HandlerBuildHierarchy_consuming ==
    /\ pc = "handler"
    /\ LET h == _build_hierarchy(handler_cls, Len(ctxs))
       IN  /\ instances' = instances \o
                    [i \in DOMAIN h.instances |->
                        [cls |-> h.instances[i], by |-> "build_hierarchy"]]
           /\ IF h.exc # NoError
              THEN /\ error' = h.exc
                   /\ pc' = "exit"
                   /\ args' = args
              ELSE /\ args' = h.params
                   /\ pc' = "construct"
                   /\ error' = error
    /\ ctxs' = [ctxs EXCEPT ![Len(ctxs)].params = <<>>]
    /\ UNCHANGED <<config_vars, saver_vars, editor_vars, defs, click_obj, created, on_init_log, on_run_log>>

\* cli.py:94-95: args = SimpleNamespace(cls._build_hierarchy(context))
HandlerBuildHierarchy ==
    /\ pc = "handler"
    /\ LET h == _build_hierarchy(handler_cls, Len(ctxs))
       IN  /\ instances' = instances \o
                    [i \in DOMAIN h.instances |->
                        [cls |-> h.instances[i], by |-> "build_hierarchy"]]
           /\ IF h.exc # NoError
              THEN /\ error' = h.exc
                   /\ pc' = "exit"
                   /\ args' = args
              ELSE /\ args' = h.params
                   /\ pc' = "construct"
                   /\ error' = error
    /\ UNCHANGED <<config_vars, saver_vars, editor_vars, defs, click_obj, created, ctxs, on_init_log, on_run_log>>

\* cli.py:96 with the instance built without validation (model_construct)
HandlerConstruct_unvalidated ==
    /\ pc = "construct"
    /\ instances' = Append(instances, [cls |-> handler_cls, by |-> "handler"])
    /\ pc' = "on_init"
    /\ UNCHANGED <<config_vars, saver_vars, editor_vars, defs, click_obj, created, ctxs, args, on_init_log, on_run_log, error>>

\* cli.py:96: obj = cls(kwargs), the kwargs being the context's params
HandlerConstruct ==
    /\ pc = "construct"
    /\ IF validates(handler_cls, ctxs[Len(ctxs)].params)
       THEN /\ instances' = Append(instances, [cls |-> handler_cls, by |-> "handler"])
            /\ pc' = "on_init"
            /\ error' = error
       ELSE /\ error' = ValidationError(handler_cls)
            /\ pc' = "exit"
            /\ instances' = instances
    /\ UNCHANGED <<config_vars, saver_vars, editor_vars, defs, click_obj, created, ctxs, args, on_init_log, on_run_log>>

\* on_init called only on the command that will run
HandlerOnInit_only_leaf ==
    /\ pc = "on_init"
    /\ on_init_log' = IF ctxs[Len(ctxs)].invoked_subcommand = None
                      THEN Append(on_init_log, [cls |-> handler_cls, args |-> args])
                      ELSE on_init_log
    /\ pc' = "on_run"
    /\ UNCHANGED <<config_vars, saver_vars, editor_vars, defs, click_obj, created, ctxs, args, on_run_log, instances, error>>

\* cli.py:98: obj.on_init(args=args)
HandlerOnInit ==
    /\ pc = "on_init"
    /\ on_init_log' = Append(on_init_log, [cls |-> handler_cls, args |-> args])
    /\ pc' = "on_run"
    /\ UNCHANGED <<config_vars, saver_vars, editor_vars, defs, click_obj, created, ctxs, args, on_run_log, instances, error>>

\* on_run called without the test of context.invoked_subcommand
HandlerOnRun_unconditional ==
    /\ pc = "on_run"
    /\ on_run_log' = Append(on_run_log, [cls |-> handler_cls, args |-> args])
    /\ pc' = "returned"
    /\ UNCHANGED <<config_vars, saver_vars, editor_vars, defs, click_obj, created, ctxs, args, on_init_log, instances, error>>

\* cli.py:99-100: obj.on_run(args=args) when no subcommand was invoked
HandlerOnRun ==
    /\ pc = "on_run"
    /\ on_run_log' = IF ctxs[Len(ctxs)].invoked_subcommand = None
                     THEN Append(on_run_log, [cls |-> handler_cls, args |-> args])
                     ELSE on_run_log
    /\ pc' = "returned"
    /\ UNCHANGED <<config_vars, saver_vars, editor_vars, defs, click_obj, created, ctxs, args, on_init_log, instances, error>>

\* the callback has returned to click: Group.invoke goes on to make the
\* subcommand's context, or the invocation ends
Returned ==
    /\ pc = "returned"
    /\ pc' = IF ctxs[Len(ctxs)].invoked_subcommand = None THEN "exit" ELSE "make_context"
    /\ UNCHANGED <<config_vars, saver_vars, editor_vars, defs, click_obj, created, ctxs, args, on_init_log, on_run_log,
                   instances, error>>

Next ==
    \/ Run
    \/ MakeContext
    \/ Invoke
    \/ HandlerBuildHierarchy
    \/ HandlerConstruct
    \/ HandlerOnInit
    \/ HandlerOnRun
    \/ Returned

Spec == Init /\ [][Next]_vars

----------------------------------------------------------------------------
(* Vocabulary of the properties *)

\* the invoked chain: the classes of the contexts made so far, root first
chain == [i \in DOMAIN ctxs |-> ctxs[i].obj]

\* the classes on_init / on_run were called on, in call order
on_init_calls == [i \in DOMAIN on_init_log |-> on_init_log[i].cls]
on_run_calls == [i \in DOMAIN on_run_log |-> on_run_log[i].cls]

\* the invocation ended without an exception
ExitedOk == pc = "exit" /\ error = NoError

IsPrefix(s, t) == Len(s) <= Len(t) /\ \A i \in DOMAIN s : s[i] = t[i]

----------------------------------------------------------------------------
\* C1: on an invoked chain whose arguments all parse and validate, on_init is
\* called exactly once for each command of the chain, root first and leaf
\* last; at every moment the calls made so far are the first commands of the
\* chain in chain order, so no command is initialised before its parent.
C1_OnInitOncePerCommandRootFirst ==
    /\ IsPrefix(on_init_calls, chain)
    /\ \A i \in DOMAIN chain : i > 1 =>
           chain[i] \in Range(SUBCOMMANDS_CLS[chain[i - 1]])
    /\ chain # << >> => chain[1] = 1
    /\ ExitedOk => on_init_calls = chain

\* a three command chain ran to its end, every command initialised
C1_Witness ==
    /\ ExitedOk
    /\ Len(chain) >= 3
    /\ on_init_calls = chain

\* C2: on_run is called at most once in an invocation, only on the last
\* command of the invoked chain, whose context has no invoked subcommand;
\* a command followed by a subcommand never has its on_run called.
C2_OnRunOnlyOnLeafAtMostOnce ==
    /\ Len(on_run_calls) <= 1
    /\ on_run_calls # << >> =>
           /\ on_run_calls[1] = chain[Len(chain)]
           /\ ctxs[Len(ctxs)].invoked_subcommand = None
    /\ \A i \in DOMAIN ctxs :
           ctxs[i].invoked_subcommand # None => chain[i] \notin Range(on_run_calls)
    /\ ExitedOk => Len(on_run_calls) = 1

\* a subcommand's on_run ran after its parent group was dispatched without it
C2_Witness ==
    /\ ExitedOk
    /\ Len(chain) >= 2
    /\ on_run_calls = <<chain[Len(chain)]>>
    /\ ctxs[1].invoked_subcommand # None

\* C3: a group invoked with its own options and no subcommand name is
\* accepted (no usage error for the missing subcommand): if its own values
\* validate its on_init runs, then its on_run, and neither on_init nor on_run
\* of any of its children is called.
C3_GroupInvocableWithoutSubcommand ==
    LET ctx == ctxs[Len(ctxs)]
    IN  (/\ ctxs # << >>
         /\ ctx.command.kind = "Group"
         /\ ctx.protected_args = None) =>
            /\ error.type # "UsageError"
            /\ (pc = "exit" /\ validates(ctx.obj, ctx.params)) =>
                   /\ error = NoError
                   /\ on_init_calls # << >>
                   /\ on_init_calls[Len(on_init_calls)] = ctx.obj
                   /\ on_run_calls = <<ctx.obj>>
            /\ on_run_calls # << >> => ctx.obj \in Range(on_init_calls)
            /\ \A c \in Range(SUBCOMMANDS_CLS[ctx.obj]) :
                   c \notin Range(on_init_calls) \cup Range(on_run_calls)

\* a group below the root was invoked without a subcommand and ran
C3_Witness ==
    /\ ExitedOk
    /\ Len(ctxs) = 2
    /\ ctxs[2].command.kind = "Group"
    /\ ctxs[2].protected_args = None
    /\ on_run_calls = <<ctxs[2].obj>>
    /\ model_fields[ctxs[2].obj] # << >>

\* C4 as claimed: a required field omitted on the leaf ends the invocation
\* with a usage error before on_init of any command of the chain was called.
C4_MissingFieldBeforeAnyOnInit ==
    (pc = "exit" /\ error.type = "UsageError" /\ error.reason = "MissingParameter")
        => on_init_calls = << >>

\* C4 as amended: a required field omitted on the leaf ends the invocation
\* with a usage error before on_init of the leaf and before any on_run; by
\* then on_init of every ancestor of the leaf has been called, root first, so
\* no on_init has been called only when the leaf is the root.
C4_MissingFieldBeforeLeafOnInit ==
    (pc = "exit" /\ error.type = "UsageError" /\ error.reason = "MissingParameter")
        => /\ error.cls \notin Range(on_init_calls)
           /\ on_run_calls = << >>
           /\ on_init_calls = chain
           /\ IF chain = << >> THEN error.cls = 1
              ELSE error.cls \in Range(SUBCOMMANDS_CLS[chain[Len(chain)]])

\* the leaf of a three command chain lacks its required field: root and
\* intermediate group are initialised already
C4_Witness ==
    /\ pc = "exit"
    /\ error.type = "UsageError"
    /\ error.reason = "MissingParameter"
    /\ Len(chain) = 2
    /\ on_init_calls = chain
    /\ error.cls \in Range(SUBCOMMANDS_CLS[chain[2]])

----------------------------------------------------------------------------
(* Properties of the compiled commands *)

RECURSIVE Nodes(_)

\* the click objects reachable from a compiled command
Nodes(node) ==
    IF node.kind = "None" THEN {}
    ELSE IF node.kind = "Group"
    THEN {node} \cup UNION {Nodes(node.commands[k]) : k \in DOMAIN node.commands}
    ELSE {node}

\* C5 as claimed: a bool field never becomes a required option: with or
\* without a declared default its option is a presence flag with required
\* false, so no usage error for a missing option comes from a bool field.
C5_BoolOptionNeverRequired ==
    /\ \A n \in Nodes(click_obj) : \A i \in DOMAIN n.params :
           model_fields[n.obj][i].annotation = "bool" =>
               (n.params[i].is_flag /\ ~n.params[i].required)
    /\ (pc = "exit" /\ error.type = "UsageError" /\ error.reason = "MissingParameter")
           => \E i \in DOMAIN model_fields[error.cls] :
                  /\ model_fields[error.cls][i].annotation # "bool"
                  /\ model_fields[error.cls][i].default = PydanticUndefined

\* C6 as claimed: an int, float or str field with a declared default (a falsy
\* one and None included) becomes an optional option carrying that default,
\* one without a declared default becomes a required option.
C6_DeclaredDefaultDecidesRequired ==
    \A n \in Nodes(click_obj) : \A i \in DOMAIN n.params :
        LET f == model_fields[n.obj][i]
            o == n.params[i]
        IN  f.annotation \in {"int", "float", "str"} =>
                IF f.default # PydanticUndefined
                THEN ~o.required /\ o.default = f.default
                ELSE o.required

HasUnsupportedField ==
    \E c \in DOMAIN model_fields : \E i \in DOMAIN model_fields[c] :
        model_fields[c][i].annotation \notin SupportedTypes

\* C7: a tree with a field of an unsupported type anywhere fails in
\* compilation: Command.run ends with the exception of _get_click_parameters,
\* no click object is returned, no context is made (nothing is parsed), no
\* on_init or on_run is called and no command is instantiated.
C7_UnsupportedFieldFailsCompilation ==
    HasUnsupportedField =>
        /\ click_obj = NoObj
        /\ ctxs = << >>
        /\ on_init_log = << >>
        /\ on_run_log = << >>
        /\ instances = << >>
        /\ pc \in {"run", "exit"}
        /\ pc = "exit" => error.type = "NotImplementedError"

\* compilation failed on a field two levels below the root, root and
\* intermediate command being valid
C7_Witness ==
    /\ pc = "exit"
    /\ error.type = "NotImplementedError"
    /\ error.cls \notin Range(SUBCOMMANDS_CLS[1]) \cup {1}
    /\ first_unsupported(model_fields[1]) = 0

\* C8 as claimed: a tree of bool, int, float and str fields compiles, to one
\* click object per command class, every child registered in its parent's
\* group, every object's options being its class's fields in declaration
\* order, one option per field.
C8_OneNodePerDefinitionFieldsInOrder ==
    (~HasUnsupportedField /\ pc # "run") =>
        /\ error.type # "NotImplementedError"
        /\ click_obj # NoObj
        /\ Len(created) = Cardinality(DOMAIN NAME)
        /\ Range(created) = DOMAIN NAME
        /\ {n.obj : n \in Nodes(click_obj)} = DOMAIN NAME
        /\ \A n \in Nodes(click_obj) :
               /\ n.kind = "Group" =>
                      {n.commands[k].obj : k \in DOMAIN n.commands}
                          = Range(SUBCOMMANDS_CLS[n.obj])
               /\ Len(n.params) = Len(model_fields[n.obj])
               /\ \A i \in DOMAIN n.params :
                      n.params[i].name = model_fields[n.obj][i].name

DuplicateChildName ==
    \E c \in DOMAIN SUBCOMMANDS_CLS : \E i, j \in DOMAIN SUBCOMMANDS_CLS[c] :
        /\ i # j
        /\ NAME[SUBCOMMANDS_CLS[c][i]] = NAME[SUBCOMMANDS_CLS[c][j]]

\* C9 as claimed: a command with two children of the same NAME fails to
\* compile with a definition error, before anything is parsed; no group is
\* produced in which one of the two children is missing or replaced.
C9_DuplicateChildNameFailsCompilation ==
    (DuplicateChildName /\ pc # "run") =>
        /\ pc = "exit"
        /\ error.type \notin {"None", "UsageError", "ValidationError"}
        /\ click_obj = NoObj
        /\ ctxs = << >>

----------------------------------------------------------------------------
(* Properties of the hierarchy *)

RECURSIVE Conforms(_, _)

\* h is the hierarchy of the command of context i as C10 describes it: the
\* command's own parsed values flat, and for a command below the root one
\* nested entry, keyed by its parent's NAME, that is the parent's hierarchy
\* built the same way; nothing else, so no entry nests the command itself
Conforms(h, i) ==
    LET own == ctxs[i].params
        nested == {k \in DOMAIN h : h[k].kind = "dict"}
    IN  /\ \A k \in DOMAIN own : k \in DOMAIN h /\ h[k] = ValueEntry(own[k])
        /\ DOMAIN h = DOMAIN own \cup nested
        /\ IF i = 1 THEN nested = {}
           ELSE /\ nested = {NAME[chain[i - 1]]}
                /\ Conforms(h[NAME[chain[i - 1]]].d, i - 1)

\* C10 as claimed: the hierarchy passed to on_init and on_run of the command
\* at depth d holds the command's own parsed values flat and, for d > 0, one
\* nested entry under the parent's NAME holding the parent's hierarchy, and
\* so on up to the root: nesting depth d.
C10_HierarchyOwnFlatParentNested ==
    /\ \A i \in DOMAIN on_init_log :
           i \in DOMAIN ctxs /\ Conforms(on_init_log[i].args, i)
    /\ \A i \in DOMAIN on_run_log : Conforms(on_run_log[i].args, Len(ctxs))

RECURSIVE NestsChild(_, _, _)

\* h is the hierarchy of the command of context k as C11 describes it for the
\* dispatch of the command of context i: the command's own parsed values by
\* name and, when the command has an invoked child (k < i), one nested entry
\* under the child's NAME that is the child's hierarchy built the same way
NestsChild(h, k, i) ==
    LET own == ctxs[k].params
        nested == {n \in DOMAIN h : h[n].kind = "dict"}
    IN  /\ \A n \in DOMAIN own : n \in DOMAIN h /\ h[n] = ValueEntry(own[n])
        /\ DOMAIN h = DOMAIN own \cup nested
        /\ IF k >= i THEN nested = {}
           ELSE /\ nested = {NAME[chain[k + 1]]}
                /\ NestsChild(h[NAME[chain[k + 1]]].d, k + 1, i)

RECURSIVE NestsParent(_, _)

\* h is the hierarchy of the command of context i as cli.py:72-89 builds it:
\* the nested entries are exactly one, under the NAME of the parent, holding
\* the parent's hierarchy built the same way (none for the root), and every
\* own parsed value sits under its field name unless that name is the key of
\* the nested entry
NestsParent(h, i) ==
    LET own == ctxs[i].params
        nested == {n \in DOMAIN h : h[n].kind = "dict"}
    IN  /\ DOMAIN h = DOMAIN own \cup nested
        /\ \A n \in DOMAIN own \ nested : h[n] = ValueEntry(own[n])
        /\ IF i = 1 THEN nested = {}
           ELSE /\ nested = {NAME[chain[i - 1]]}
                /\ NestsParent(h[NAME[chain[i - 1]]].d, i - 1)

RECURSIVE NestedKeys(_)

\* the keys of h, at any depth, that hold a nested hierarchy
NestedKeys(h) ==
    LET nested == {n \in DOMAIN h : h[n].kind = "dict"}
    IN  nested \cup UNION {NestedKeys(h[n].d) : n \in nested}

\* the NAMEs of the strict ancestors of the command of context i
AncestorNames(i) == {NAME[chain[j]] : j \in 1..(i - 1)}

\* the position on the chain of the command that was being dispatched when
\* instances[n] was made: one past the commands whose handler had already
\* constructed its instance
DispatchingAt(n) ==
    1 + Cardinality({m \in 1..(n - 1) : instances[m].by = "handler"})

\* C12: at every dispatch every key of the hierarchy that holds a nested
\* hierarchy, at any depth, is the NAME of a strict ancestor of the
\* dispatching command on the invoked path, and every command instantiated by
\* the reconstruction is such a strict ancestor: never the command itself, a
\* sibling, a descendant or a command off the path.
C12_OnlyStrictAncestorsNestedOrInstantiated ==
    /\ \A i \in DOMAIN on_init_log :
           NestedKeys(on_init_log[i].args) \subseteq AncestorNames(i)
    /\ \A i \in DOMAIN on_run_log :
           NestedKeys(on_run_log[i].args) \subseteq AncestorNames(Len(ctxs))
    /\ \A n \in DOMAIN instances :
           instances[n].by = "build_hierarchy" =>
               \E j \in 1..(DispatchingAt(n) - 1) :
                   j \in DOMAIN chain /\ chain[j] = instances[n].cls

\* the third command of a chain was initialised in a tree where it has a
\* sibling and NAMEs differ along the chain: its hierarchy nests two
\* ancestors, and the reconstruction instantiated both of them
C12_Witness ==
    /\ Len(on_init_log) = 3
    /\ NestedKeys(on_init_log[3].args) = {NAME[chain[1]], NAME[chain[2]]}
    /\ NAME[chain[3]] \notin AncestorNames(3)
    /\ \E n \in DOMAIN instances :
           /\ instances[n].by = "build_hierarchy"
           /\ DispatchingAt(n) = 3
           /\ instances[n].cls = chain[1]

\* a call of _build_hierarchy for the command of context i, made now, returns
\* the mapping that the call made at that command's dispatch returned
SameAsAtDispatch(i) ==
    LET again == _build_hierarchy(chain[i], i)
    IN  again.exc = NoError /\ again.params = on_init_log[i].args

\* the step leaves every context in place, with its parsed values and its
\* command class, so that the parent links (the positions) are kept
ContextChainKept ==
    \A i \in DOMAIN ctxs :
        /\ i \in DOMAIN ctxs'
        /\ ctxs'[i].params = ctxs[i].params
        /\ ctxs'[i].obj = ctxs[i].obj

----------------------------------------------------------------------------
(* Properties of the dispatch steps *)

\* C14: if the instance of the dispatching command cannot be constructed
\* from its own parsed values, the invocation ends with a validation error
\* for that command; neither its on_init nor its on_run is called, and no
\* context is made and no handler runs for a command below it.
C14_ConstructionFailureStopsDispatch ==
    /\ error.type = "ValidationError" =>
           /\ pc = "exit"
           /\ ctxs # << >>
           /\ error.cls = chain[Len(chain)]
           /\ ~validates(error.cls, ctxs[Len(ctxs)].params)
    /\ \A i \in DOMAIN ctxs :
           ~validates(chain[i], ctxs[i].params) =>
               /\ i = Len(ctxs)
               /\ pc \in {"invoke", "handler", "construct", "exit"}
               /\ pc = "exit" => error.type \in {"ValidationError", "UsageError"}
               /\ chain[i] \notin Range(on_init_calls) \cup Range(on_run_calls)
               /\ on_init_calls = SubSeq(chain, 1, i - 1)
               /\ on_run_calls = << >>
               /\ \A n \in DOMAIN instances : instances[n].cls # chain[i]

\* the second command of a chain got a value on the command line that its
\* field does not accept: the invocation ended with its validation error
\* after the root had been initialised
C14_Witness ==
    /\ pc = "exit"
    /\ error.type = "ValidationError"
    /\ Len(chain) = 2
    /\ error.cls = chain[2]
    /\ on_init_calls = <<chain[1]>>
    /\ SUBCOMMANDS_CLS[chain[2]] # << >>

\* the classes whose _handler constructed its instance (cli.py:96), in order
handler_constructed ==
    LET made == SelectSeq(instances, LAMBDA e : e.by = "handler")
    IN  [n \in DOMAIN made |-> made[n].cls]

\* the steps of cli.py:96-100 were taken in order and none was skipped, for
\* every command dispatched so far, each command being dispatched once
DispatchStepsInOrder ==
    /\ IsPrefix(handler_constructed, chain)
    /\ IsPrefix(on_init_calls, handler_constructed)
    /\ Len(handler_constructed) = Len(on_init_calls) + (IF pc = "on_init" THEN 1 ELSE 0)
    /\ pc \in {"handler", "construct", "on_init"} => Len(on_init_calls) = Len(ctxs) - 1
    /\ pc \in {"on_run", "returned"} => Len(on_init_calls) = Len(ctxs)
    /\ pc = "on_run" => on_run_calls = << >>
    /\ pc = "returned" =>
           on_run_calls = IF ctxs[Len(ctxs)].invoked_subcommand = None
                          THEN <<chain[Len(chain)]>> ELSE << >>
    /\ on_run_calls # << >> =>
           /\ on_run_calls = <<chain[Len(chain)]>>
           /\ on_init_calls = chain
           /\ pc \in {"returned", "exit"}
    /\ ExitedOk => /\ handler_constructed = chain
                   /\ on_init_calls = chain
                   /\ on_run_calls = <<chain[Len(chain)]>>

\* the handler of the command of context p has built its hierarchy
HierarchyBuilt(p) ==
    \/ p <= Len(on_init_log)
    \/ p = Len(ctxs) /\ (pc \in {"construct", "on_init"} \/ error.type = "ValidationError")

\* C15 as claimed: for each command of the invoked chain the steps construct
\* instance, on_init, on_run (leaf only), done are taken in this order, none
\* skipped, and a command whose dispatch is done is never constructed or
\* dispatched again in the invocation: no class is instantiated twice.
C15_StepsInOrderNeverConstructedAgain ==
    /\ DispatchStepsInOrder
    /\ \A m, n \in DOMAIN instances :
           instances[m].cls = instances[n].cls => m = n

\* C15 as amended: the steps are taken in this order, none skipped, and a
\* command whose dispatch is done is never dispatched again (its handler
\* constructs it once, its on_init and on_run are not called again); it is
\* however instantiated anew, once for every command below it on the chain
\* whose hierarchy is reconstructed.
C15_StepsInOrderNeverDispatchedAgain ==
    /\ DispatchStepsInOrder
    /\ \A m, n \in DOMAIN instances :
           (instances[m].cls = instances[n].cls
                /\ instances[m].by = "handler" /\ instances[n].by = "handler") => m = n
    /\ \A j \in DOMAIN ctxs :
           Cardinality({n \in DOMAIN instances :
                            instances[n].by = "build_hierarchy"
                                /\ instances[n].cls = chain[j]})
               = Cardinality({p \in (j + 1)..Len(ctxs) : HierarchyBuilt(p)})

\* a chain of three commands ran to its end: the root was constructed by its
\* handler once and twice more by the reconstructions for the two commands
\* below it
C15_Witness ==
    /\ ExitedOk
    /\ Len(chain) = 3
    /\ on_run_calls = <<chain[3]>>
    /\ Cardinality({n \in DOMAIN instances : instances[n].cls = chain[1]}) = 3

----------------------------------------------------------------------------
(* Order of compilation *)

RECURSIVE Descendants(_)

\* the classes below c in the tree of SUBCOMMANDS_CLS
Descendants(c) ==
    UNION {{k} \cup Descendants(k) : k \in Range(SUBCOMMANDS_CLS[c])}

\* C18: compilation is depth first, children before the parent's own options
\* and before the parent's click object: when it fails on an unsupported
\* field, the error names the first such field of a command all of whose
\* descendants compiled (so of the descendant, when a command and one of its
\* descendants both declare one), the click object of every descendant of
\* that command has been made, and none has been made for that command or
\* for any of its ancestors; when it succeeds every click object was made
\* after those of all its descendants.
C18_ChildrenCompiledBeforeParent ==
    /\ error.type = "NotImplementedError" =>
           /\ first_unsupported(model_fields[error.cls]) # 0
           /\ error.field =
                  model_fields[error.cls][first_unsupported(model_fields[error.cls])].name
           /\ \A d \in Descendants(error.cls) :
                  /\ first_unsupported(model_fields[d]) = 0
                  /\ d \in Range(created)
           /\ \A a \in DOMAIN SUBCOMMANDS_CLS :
                  (a = error.cls \/ error.cls \in Descendants(a)) => a \notin Range(created)
           /\ click_obj = NoObj
    /\ \A m, n \in DOMAIN created :
           created[m] \in Descendants(created[n]) => m < n
    /\ (pc # "run" /\ error.type # "NotImplementedError") =>
           Range(created) = {1} \cup Descendants(1)

\* the root and the command below it both declare a field of an unsupported
\* type: compilation failed on the field of the lower command, after the
\* command below that one had been compiled
C18_Witness ==
    /\ pc = "exit"
    /\ error.type = "NotImplementedError"
    /\ error.cls \in Range(SUBCOMMANDS_CLS[1])
    /\ first_unsupported(model_fields[1]) # 0
    /\ Descendants(error.cls) # {}
    /\ created # << >>

----------------------------------------------------------------------------
(* The dispatching command's own values in its hierarchy *)

\* the hierarchy h holds every parsed value of the context i under its field
\* name, at the top level
OwnValuesOnTop(h, i) ==
    \A n \in DOMAIN ctxs[i].params :
        n \in DOMAIN h /\ h[n] = ValueEntry(ctxs[i].params[n])

\* C20 as claimed: the hierarchy passed to on_init and on_run of a command
\* holds every parsed field of the command at the top level with its parsed
\* value, in every tree, also when a field of the command is named like the
\* NAME of the command's parent.
C20_OwnFieldsKeepParsedValue ==
    /\ \A i \in DOMAIN on_init_log :
           i \in DOMAIN ctxs /\ OwnValuesOnTop(on_init_log[i].args, i)
    /\ \A i \in DOMAIN on_run_log : OwnValuesOnTop(on_run_log[i].args, Len(ctxs))

----------------------------------------------------------------------------
(* Properties of Configuration *)

\* save is running, called by main or by load
Saving ==
    cfg_pc \in {"save_suffix", "save_mkdir", "save_dumps", "save_open",
                "save_write", "save_replace"}

\* the last call has ended and it ran save to its end or to an exception
SaveEnded ==
    /\ cfg_pc = "idle"
    /\ last_call = "save" \/ (last_call = "load" /\ caller = "load")

\* the file holds a complete JSON object
CompleteDocument(f) ==
    f.exists /\ json_loads(f.text).exc = NoError /\ json_loads(f.text).is_dict

\* C16: save is atomic with respect to FILEPATH: while a save runs, and
\* after a save that failed at whatever step, FILEPATH is as it was when the
\* save began (absent, or holding its previous content); after a save that
\* succeeded it holds the complete new document, which reads back as the
\* saved values; at no point does it hold a part of a document.
C16_SaveAtomic ==
    /\ Saving => fs.FILEPATH = previous
    /\ (SaveEnded /\ cfg_error # NoError) => fs.FILEPATH = previous
    /\ (SaveEnded /\ cfg_error = NoError) =>
           /\ fs.FILEPATH = File(json_str)
           /\ json_str = json_dumps(config) \o <<newline>>
           /\ json_loads(fs.FILEPATH.text).value = config
    /\ fs.FILEPATH \in InitialFiles \/ CompleteDocument(fs.FILEPATH)

\* a save over an existing document failed while the temporary file was
\* being written: the temporary file holds a part of the new document, and
\* FILEPATH its previous content, which differs from the new one
C16_Witness ==
    /\ SaveEnded
    /\ cfg_error = [type |-> "OSError"]
    /\ previous.exists
    /\ CompleteDocument(previous)
    /\ fs[temp_file].exists
    /\ Len(fs[temp_file].text) \in 1..(Len(json_str) - 1)
    /\ previous.text # json_str
    /\ fs.FILEPATH = previous

RECURSIVE DeepMerge(_, _)

\* the values C17 describes: the key the file mentions has the file's value,
\* the key it does not mention keeps its value, at the top level and inside
\* a nested mapping
DeepMerge(before, mentioned) ==
    [k \in DOMAIN before \cup DOMAIN mentioned |->
        IF k \notin DOMAIN mentioned THEN before[k]
        ELSE IF k \in DOMAIN before /\ before[k].kind = "dict"
                  /\ mentioned[k].kind = "dict"
        THEN DictEntry(DeepMerge(before[k].d, mentioned[k].d))
        ELSE mentioned[k]]

\* load read the file and set the fields
Loaded ==
    /\ cfg_pc = "idle"
    /\ last_call = "load"
    /\ caller = "main"
    /\ cfg_error = NoError

\* C17 as claimed: after a successful load every key the file mentions has
\* the file's value and every key it does not mention, at the top level or
\* inside a nested mapping, keeps the value it had before the load.
C17_LoadPreservesMissingValues ==
    Loaded => config = DeepMerge(merged_from, loaded_data)

----------------------------------------------------------------------------
(* Properties of concurrent saves *)

\* C21 as claimed: when two processes save to one FILEPATH concurrently,
\* under every interleaving of their writes and renames FILEPATH never holds
\* an empty, truncated or mixed document (it is absent or holds the earlier
\* document until it holds the complete document of one of the two), it
\* ends up holding the complete document of one of the two, and neither
\* save fails because the other took the temporary file.
C21_ConcurrentSavesLeaveOneWholeDocument ==
    /\ links.FILEPATH # 0 =>
           inodes[links.FILEPATH] \in
               {EarlierDocument} \cup {saver_json_str[p] : p \in Savers}
    /\ \A p \in Savers : saver_error[p] = NoError
    /\ (\A p \in Savers : saver_pc[p] \in {"done", "failed"}) =>
           /\ links.FILEPATH # 0
           /\ inodes[links.FILEPATH] \in {saver_json_str[p] : p \in Savers}

\* open_editor has returned or raised
EditorExited == editor_pc = "exit"

\* C22: open_editor leaves no temporary file behind on any exit path: once
\* it has returned or raised (the editor exited normally, exited with a
\* status that is not 0, could not be launched, or get_editor found no
\* editor), the temporary file it created no longer exists.
C22_OpenEditorLeavesNoTempFile ==
    EditorExited => ~editor_temp_file.exists

====
